---- MODULE Spec2Model ----
\* A model of the opportunity-detection pipeline of src/app.py: network
\* canonicalisation and selection, the per-triple filters of run_scan, and
\* the process-wide stability tracker (op_cache, lifetime_history,
\* last_seen_keys).
\*
\* Units.  Prices are integers.  Percentages (spread, fee, profit, min_profit,
\* max_profit) are carried in tenths of a percent, so the code's 0.001 taker
\* fee (0.1 %) is 1 and the default min_profit 1.0 is 10; buy prices are
\* chosen so that the division in the spread is exact.  Time is in whole
\* seconds.  An opportunity key "sym|buy>sell" is the tuple <<sym, buy, sell>>.
EXTENDS Integers, Sequences, FiniteSets, TLC

VARIABLES
    op_cache,          \* key -> trail of <<time, profit>> samples (app.py:74)
    lifetime_history,  \* key -> list of completed lifetimes       (app.py:75)
    last_seen_keys,    \* key set of the last completed scan       (app.py:76)
    now,               \* the wall clock read by time.time()
    exch,              \* exchange id -> markets, tickers, currencies (the gateway's data)
    settings,          \* the scan request
    results,           \* the list returned by the last run_scan
    current_keys,      \* run_scan's local list of keys, as handed to reconcile
    chosen,            \* key -> what choose_common_chain returned at line 327 in the last scan
    recorded,          \* history: key -> every sample ever handed to stability_and_expiry
    moves,             \* number of changes of the market (prices, outages) so far
    idles,             \* number of idle periods so far
    run,               \* the last run_scan call: whether it raised, its log, its gateway calls
    volume_call,       \* one call of safe_usd_volume: its arguments and what it returned
    threads            \* /api/scan requests in progress: the list objects and each thread's locals

vars == <<op_cache, lifetime_history, last_seen_keys, now, exch, settings,
          results, current_keys, chosen, recorded, moves, idles, run, volume_call,
          threads>>

\* The process-wide stability state.
tracker == <<op_cache, lifetime_history, last_seen_keys>>

\* What a scan leaves behind besides the stability state.
scan_out == <<results, current_keys, chosen, recorded, run>>

\* What no scan and no change of the market touches.
aside == <<volume_call, threads>>

\* ------------------------------------------------------------------ bounds
\* Spec: a short run in which the prices of two symbols move freely.
MaxScans == 8
MaxMoves == 3
\* SpecLong: a long run of scans, one symbol's price moving at most LongMoves
\* times within the first MoveBefore seconds, with at most MaxIdles idle
\* periods of IdleGap seconds, each starting within the first IdleBefore
\* seconds.
LongScans == 36
LongMoves == 2
MoveBefore == 34
MaxIdles == 1
IdleBefore == 2
IdleGap == 30
MaxNets == 2
\* SpecScan: the number of scans of each market.
ScanRuns == 1
\* SpecBulk: the number of symbols a large market lists beyond the cap of
\* run_scan, the largest size of a small market, and the largest set of
\* symbols of which every iteration order is tried.
BulkExtra == 2
BulkSmall == 5
PermuteUpTo == 4
\* SpecConc: the number of requests served in all, and of price moves.
ConcRequests == 2
ConcMoves == 1
\* SpecOps: the number of scans, and of changes of an exchange's health.
OpsScans == 3
MaxOutages == 1

\* ------------------------------------------------------- program constants
TRAIL_CAP == 30
MAX_SYMBOLS == 1000
MAX_AGE_SEC == 300
DEFAULT_TAKER == 1
LABEL_MINUTES_FROM == 90
SANITY_RATIO_PCT == 50
FETCH_ATTEMPTS == 3

USD_QUOTES == {"USDT", "USD", "USDC", "BUSD"}

LOW_FEE_CHAIN_PRIORITY ==
    <<"TRC20", "BSC", "SOL", "MATIC", "ARB", "OP", "TON", "AVAX", "ETH">>

\* The alias table, entry by entry as written in the source.
CHAIN_ALIASES ==
    [ BEP20 |-> "BSC",      BSC |-> "BEP20",
      MATIC |-> "Polygon",  Polygon |-> "MATIC",
      OP |-> "Optimism",    Optimism |-> "OP",
      ARB |-> "Arbitrum",   Arbitrum |-> "ARB",
      TRC20 |-> "TRON",     TRON |-> "TRC20" ]

\* ------------------------------------------------------------------ strings
\* str.upper() on the network names of the model; every other name of the
\* model is already upper case.  No name of the model carries surrounding
\* whitespace, so str.strip() leaves them as they are.
Upper(s) ==
    CASE s = "Polygon"  -> "POLYGON"
      [] s = "Optimism" -> "OPTIMISM"
      [] s = "Arbitrum" -> "ARBITRUM"
      [] OTHER          -> s

\* Python's string order (by code point) on the network names of the model.
SortedNames ==
    <<"APT", "ARB", "ARBITRUM", "AVAX", "Arbitrum", "BEP20", "BSC", "ETH",
      "KAVA", "MATIC", "OP", "OPTIMISM", "Optimism", "POLYGON", "Polygon",
      "SOL", "TON", "TRC20", "TRON">>

AllNames == {SortedNames[i] : i \in DOMAIN SortedNames}

LexRank(s) == CHOOSE i \in DOMAIN SortedNames : SortedNames[i] = s

\* sorted(candidates)[0]
LexSmallest(S) == CHOOSE s \in S : \A t \in S : LexRank(s) <= LexRank(t)

\* n = name.upper().strip(); CHAIN_ALIASES.get(n, n)
normalize_chain(name) ==
    LET n == Upper(name)
    IN  IF n \in DOMAIN CHAIN_ALIASES THEN CHAIN_ALIASES[n] ELSE n

\* --------------------------------------------------------- shapes of the data
\* The value of one entry of a currency's "networks" dict.  malformed stands
\* for a value that is no dict (None, a string): calling .get on it raises.
NetInfo(w, d) == [malformed |-> FALSE, withdraw |-> w, deposit |-> d]
BadInfo == [malformed |-> TRUE, withdraw |-> FALSE, deposit |-> FALSE]

\* A "networks" dict with no entry.
NoNets == [n \in {} |-> BadInfo]

\* None (a field without a value), a missing "taker" entry, and a value that
\* float() cannot parse (a non-numeric string), kept apart from each other
\* and from every number a field can hold.
NONE == 0 - 1
ABSENT == 0 - 2
UNPARSABLE == 0 - 3

\* The sentinels "❌ No chain" and "❌ Unknown" of choose_common_chain.
NO_CHAIN == "NO_CHAIN"
UNKNOWN_CHAIN == "UNKNOWN_CHAIN"

\* chain.startswith("❌")
IsSentinel(chain) == chain \in {NO_CHAIN, UNKNOWN_CHAIN}

\* The position of the first occurrence of the character c in s, 0 when
\* there is none.
Find(s, c) ==
    LET hits == {i \in 1..Len(s) : SubSeq(s, i, i) = c}
    IN  IF hits = {} THEN 0 ELSE CHOOSE i \in hits : \A j \in hits : i <= j

\* s cut before position i, whole when i is 0.
CutBefore(s, i) == IF i = 0 THEN s ELSE SubSeq(s, 1, i - 1)

\* s.split(c)[0]
Before(s, c) == CutBefore(s, Find(s, c))

\* What follows the first c in s.
After(s, c) == SubSeq(s, Find(s, c) + 1, Len(s))

\* symbol.split("/") by its outcome: malformed when it has one element only,
\* so that [1] raises IndexError; else base is symbol.split("/")[0] and
\* quote is symbol.split("/")[1].split(":")[0].
SplitSymbol(symbol) ==
    [malformed |-> Find(symbol, "/") = 0,
     base |-> Before(symbol, "/"),
     quote |-> Before(Before(After(symbol, "/"), "/"), ":")]

\* The symbols of the markets of the model.
BaseSymbols == {"BTC/USDT", "SOL/USDT", "ETH/BTC", "BULL/USDT"}
\* A symbol without a separator, as an exchange may list it.
MalformedSymbol == "BTCUSDT"

\* The symbols of a large market, C1/USDT, C2/USDT, ..., in the listing's order.
BulkSymbol(i) == "C" \o ToString(i) \o "/USDT"
BulkCount == MAX_SYMBOLS + BulkExtra
BulkListing == SubSeq([i \in 1..BulkCount |-> BulkSymbol(i)], 1, BulkCount)
BulkSymbols == {BulkListing[i] : i \in 1..BulkCount}

KnownSymbols == BaseSymbols \cup {MalformedSymbol} \cup BulkSymbols

\* SplitSymbol of the symbols of the model, computed once.
KnownSplits == [s \in KnownSymbols |-> SplitSymbol(s)] @@ <<>>

SplitOf(symbol) ==
    IF symbol \in DOMAIN KnownSplits THEN KnownSplits[symbol] ELSE SplitSymbol(symbol)

\* parse_symbol raises on the symbol.
Malformed(symbol) == SplitOf(symbol).malformed

\* parse_symbol(symbol) of a symbol that is not malformed
parse_symbol(symbol) == <<SplitOf(symbol).base, SplitOf(symbol).quote>>

\* LEV_REGEX.search(symbol) on the symbols of the model
IsLeveraged(symbol) == symbol = "BULL/USDT"

\* The coins and exchanges of the markets of Spec, SpecLong and SpecScan.
Coins == {parse_symbol(s)[1] : s \in BaseSymbols}
BaseExchanges == {"binance", "okx"}

\* The exchanges the gateway knows, the symbols their market maps list, and
\* the opportunity keys that can be built from them.
Exchanges == DOMAIN exch
Symbols == UNION {DOMAIN exch[e].markets : e \in DOMAIN exch}
Keys == Symbols \X Exchanges \X Exchanges

\* ------------------------------------------------------- network selection
\* {normalize_chain(k): (k, v) for k, v in nets_raw.items()}.  The network
\* names an exchange of the model lists never share a normalised form, so the
\* dict comprehension never overwrites an entry.
NetsNorm(nets_raw) ==
    [n \in {normalize_chain(k) : k \in DOMAIN nets_raw} |->
        LET k == CHOOSE k \in DOMAIN nets_raw : normalize_chain(k) = n
        IN  <<k, nets_raw[k]>>]

\* [normalize_chain(n) for n in LOW_FEE_CHAIN_PRIORITY if normalize_chain(n) not in exclude_norm]
PreferredNorm(exclude_norm) ==
    SelectSeq([i \in DOMAIN LOW_FEE_CHAIN_PRIORITY |->
                  normalize_chain(LOW_FEE_CHAIN_PRIORITY[i])],
              LAMBDA n : n \notin exclude_norm)

\* {normalize_chain(c) for c in exclude_chains} if not include_all_chains else set()
ExcludeNorm(exclude_chains, include_all_chains) ==
    IF ~include_all_chains THEN {normalize_chain(c) : c \in exclude_chains} ELSE {}

\* choose_common_chain: <<chain, w_ok, d_ok>>, the flags as booleans
\* (TRUE for the check mark).  An exchange whose currencies attribute is None
\* (has_currencies = FALSE) or a malformed entry of the selected network makes
\* the body raise, which the except clause turns into the unknown sentinel.
choose_common_chain(ex1, ex2, coin, exclude_chains, include_all_chains) ==
    IF ~ex1.has_currencies \/ ~ex2.has_currencies
    THEN <<UNKNOWN_CHAIN, FALSE, FALSE>>
    ELSE
    LET nets1_norm == NetsNorm(ex1.currencies[coin])
        nets2_norm == NetsNorm(ex2.currencies[coin])
        common_norm == DOMAIN nets1_norm \cap DOMAIN nets2_norm
        exclude_norm == ExcludeNorm(exclude_chains, include_all_chains)
        preferred_norm == PreferredNorm(exclude_norm)
        hits == {i \in DOMAIN preferred_norm : preferred_norm[i] \in common_norm}
        candidates == {c \in common_norm : c \notin exclude_norm}
    IN  IF common_norm = {} THEN <<NO_CHAIN, FALSE, FALSE>>
        ELSE IF hits = {} /\ candidates = {} THEN <<NO_CHAIN, FALSE, FALSE>>
        ELSE
        LET best_norm ==
                IF hits # {}
                THEN preferred_norm[CHOOSE i \in hits : \A j \in hits : i <= j]
                ELSE LexSmallest(candidates)
            info1 == nets1_norm[best_norm][2]
            info2 == nets2_norm[best_norm][2]
        IN  IF info1.malformed \/ info2.malformed
            THEN <<UNKNOWN_CHAIN, FALSE, FALSE>>
            ELSE <<best_norm, info1.withdraw, info2.deposit>>

\* ------------------------------------------------------------ ticker helpers
\* market_price_from_ticker: last if it has a value, else the bid/ask mean,
\* else None.  A missing ticker (present = FALSE) gives None.
market_price_from_ticker(t) ==
    IF ~t.present THEN NONE
    ELSE IF t.last # NONE THEN t.last
    ELSE IF t.bid # NONE /\ t.ask # NONE THEN (t.bid + t.ask) \div 2
    ELSE NONE

\* `not bp`: None or 0.0
NoPrice(p) == p = NONE \/ p = 0

\* The comparison made strict: an age of exactly max_age_sec is stale.
is_ticker_fresh_Strict(t) ==
    IF t.age = NONE THEN TRUE ELSE t.age < MAX_AGE_SEC

\* is_ticker_fresh: age is the ticker's age in seconds at the time of the
\* scan, NONE when the ticker has no timestamp.
is_ticker_fresh(t) ==
    IF t.age = NONE THEN TRUE ELSE t.age <= MAX_AGE_SEC

\* `if qvol`: a volume field holds 0 when it is None, missing or zero
Truthy(v) == v # 0

\* The first value of the raw payload that parses to a positive number, in
\* the order of INFO_VOLUME_CANDIDATES; info lists the values of the
\* candidate fields that are present.
RECURSIVE FirstPositive(_)
FirstPositive(info) ==
    IF info = <<>> THEN NONE
    ELSE IF Head(info) # UNPARSABLE /\ Head(info) > 0 THEN Head(info)
    ELSE FirstPositive(Tail(info))

\* f"{q_upper}/{conv}" on the quotes of the model: only BTC has a USD market.
ConvSymbol(quote, conv) ==
    IF quote = "BTC" /\ conv = "USDT" THEN "BTC/USDT" ELSE "NO_MARKET"

\* The price of the first of <quote>/USDT, /USDC, /USD that has one, else None.
ConvPrice(quote, all_tickers) ==
    LET convs == <<"USDT", "USDC", "USD">>
        px(i) == IF ConvSymbol(quote, convs[i]) \in DOMAIN all_tickers
                 THEN market_price_from_ticker(all_tickers[ConvSymbol(quote, convs[i])])
                 ELSE NONE
        hits == {i \in DOMAIN convs : ~NoPrice(px(i))}
    IN  IF hits = {} THEN NONE ELSE px(CHOOSE i \in hits : \A j \in hits : i <= j)

\* safe_usd_volume.  Any exception (a malformed symbol, a missing ticker,
\* float() of an unparsable value) leaves through the outer except clause, which returns 0;
\* only the scan of the raw payload has a try of its own.
safe_usd_volume(symbol, ticker, price, all_tickers) ==
    IF Malformed(symbol) \/ ~ticker.present THEN 0
    ELSE
    LET quote == parse_symbol(symbol)[2]
        usd == quote \in USD_QUOTES
        qvol == ticker.quoteVolume
        bvol == ticker.baseVolume
        raw == FirstPositive(ticker.info)
        conv_px == ConvPrice(quote, all_tickers)
    IN  IF usd /\ Truthy(qvol)
        THEN (IF qvol = UNPARSABLE THEN 0 ELSE qvol)
        ELSE IF Truthy(bvol) /\ ~NoPrice(price)
        THEN (IF bvol = UNPARSABLE THEN 0 ELSE bvol * price)
        ELSE IF raw # NONE /\ usd THEN raw
        ELSE IF raw # NONE /\ ~NoPrice(conv_px) THEN raw * conv_px
        ELSE IF Truthy(qvol) /\ ~NoPrice(conv_px)
        THEN (IF qvol = UNPARSABLE THEN 0 ELSE qvol * conv_px)
        ELSE 0

\* symbol_ok raises: the market entry is non-empty and spot, so that
\* parse_symbol is reached, and the symbol has no "/".
symbol_ok_raises(ex_obj, symbol) ==
    LET m == ex_obj.markets[symbol]
    IN  m.listed /\ m.spot /\ Malformed(symbol)

\* symbol_ok: listed, spot, USD-quoted, not leveraged, not explicitly inactive
symbol_ok(ex_obj, symbol) ==
    LET m == ex_obj.markets[symbol]
    IN  /\ m.listed
        /\ m.spot
        /\ ~Malformed(symbol)
        /\ parse_symbol(symbol)[2] \in USD_QUOTES
        /\ ~IsLeveraged(symbol)
        /\ m.active

\* m.get("taker", 0.001), in tenths of a percent: the default only when the
\* market has no "taker" entry, else the entry's value, None included.
TakerFee(ex_obj, symbol) ==
    LET m == ex_obj.markets[symbol]
    IN  IF m.taker = ABSENT THEN DEFAULT_TAKER ELSE m.taker

\* (sp - bp) / bp * 100, in tenths of a percent
Spread(bp, sp) == ((sp - bp) * 1000) \div bp

\* spread - (b_fee * 100 + s_fee * 100), in tenths of a percent
Profit(bp, sp, b_fee, s_fee) == Spread(bp, sp) - (b_fee + s_fee)

\* abs(sp - bp) / bp > 0.5
Insane(bp, sp) ==
    LET diff == IF sp >= bp THEN sp - bp ELSE bp - sp
    IN  diff * 100 > SANITY_RATIO_PCT * bp

\* The bounds made exclusive: profit <= min_p or profit >= max_p.
ProfitRejected_Exclusive(profit, min_p, max_p) == profit <= min_p \/ profit >= max_p

\* profit < min_p or profit > max_p
ProfitRejected(profit, min_p, max_p) == profit < min_p \/ profit > max_p

\* ------------------------------------------------------- stability tracker
\* secs_to_label of a rational num/den seconds: whole seconds below 90,
\* else minutes to one decimal (carried in tenths of a minute).
secs_to_label(num, den) ==
    IF num < LABEL_MINUTES_FROM * den
    THEN [unit |-> "s", val |-> num \div den]
    ELSE [unit |-> "m", val |-> (num * 20 + den * 60) \div (den * 120)]

RECURSIVE SumSeq(_)
SumSeq(q) == IF q = <<>> THEN 0 ELSE q[1] + SumSeq(Tail(q))

\* A slice taken from the wrong end: trail[:30].
TrimTrail_KeepOldest(trail) ==
    IF Len(trail) <= TRAIL_CAP THEN trail ELSE SubSeq(trail, 1, TRAIL_CAP)

\* trail[-30:]
TrimTrail(trail) ==
    IF Len(trail) <= TRAIL_CAP THEN trail
    ELSE SubSeq(trail, Len(trail) - TRAIL_CAP + 1, Len(trail))

ObsNew == [kind |-> "new", label |-> [unit |-> "s", val |-> 0]]
ExpUnknown == [kind |-> "unknown", label |-> [unit |-> "s", val |-> 0]]
ExpPast == [kind |-> "past_avg", label |-> [unit |-> "s", val |-> 0]]

\* The comparison made strict: remaining < 0.
Expiry_StrictlyPast(hist, duration) ==
    IF hist = <<>> THEN ExpUnknown
    ELSE LET remaining_num == SumSeq(hist) - duration * Len(hist)
         IN  IF remaining_num < 0 THEN ExpPast
             ELSE [kind |-> "left", label |-> secs_to_label(remaining_num, Len(hist))]

\* The expiry text of stability_and_expiry for a tracked key (lines 133-139).
Expiry(hist, duration) ==
    IF hist = <<>> THEN ExpUnknown
    ELSE LET remaining_num == SumSeq(hist) - duration * Len(hist)
         IN  IF remaining_num <= 0 THEN ExpPast
             ELSE [kind |-> "left", label |-> secs_to_label(remaining_num, Len(hist))]

\* stability_and_expiry(key, current_profit) on the key's stored trail and
\* lifetime history, at clock reading t: the trail to store and the two texts.
\* The duration is taken from the local list after the append, before the
\* slice is stored.
stability_and_expiry(trail0, hist, t, current_profit) ==
    IF trail0 = <<>>
    THEN [trail |-> <<<<t, current_profit>>>>, obs |-> ObsNew, exp |-> ExpUnknown]
    ELSE LET trail == Append(trail0, <<t, current_profit>>)
             duration == trail[Len(trail)][1] - trail[1][1]
         IN  [trail |-> TrimTrail(trail),
              obs |-> [kind |-> "observed", label |-> secs_to_label(duration, 1)],
              exp |-> Expiry(hist, duration)]

SeqToSet(q) == {q[i] : i \in DOMAIN q}

\* trail[-1][0] - trail[0][0] of a stored trail
TrailDuration(trail) == trail[Len(trail)][1] - trail[1][1]

\* The duration check left out.
Disappeared_AnyDuration(seen, cache, keys) ==
    {k \in seen \ SeqToSet(keys) : cache[k] # <<>>}

\* The keys update_lifetime_for_disappeared records a lifetime for.
Disappeared(seen, cache, keys) ==
    {k \in seen \ SeqToSet(keys) : cache[k] # <<>> /\ TrailDuration(cache[k]) > 0}

\* update_lifetime_for_disappeared(current_keys): the new lifetime_history
\* (last_seen_keys becomes set(current_keys))
update_lifetime_for_disappeared(seen, cache, history, keys) ==
    [k \in Keys |->
        IF k \in seen /\ k \in Disappeared(seen, cache, keys)
        THEN Append(history[k], TrailDuration(cache[k]))
        ELSE history[k]]

\* ------------------------------------------------------------------ run_scan
NotReached == <<"NOT_REACHED", FALSE, FALSE>>

\* One entry of run_scan's result list (the fields the model follows).
Record(sym, b_id, s_id, spread, profit, ch, se) ==
    [Pair |-> sym, Buy |-> b_id, Sell |-> s_id, Spread |-> spread, Profit |-> profit,
     Blockchain |-> ch[1], Withdraw |-> ch[2], Deposit |-> ch[3],
     Stability |-> se.obs, Expiry |-> se.exp]

\* No ticker for a symbol: b_tk.get(sym) is None.
NoTicker ==
    [present |-> FALSE, last |-> NONE, bid |-> NONE, ask |-> NONE, age |-> NONE,
     quoteVolume |-> 0, baseVolume |-> 0, info |-> <<>>]

\* An empty ticker map.
NoTickers == [sym \in {} |-> NoTicker]

\* The exchange's last tickers served although every attempt failed.
fetch_tickers_safe_Stale(ex_obj) == ex_obj.tickers

\* fetch_tickers_safe(ex, name): the exchange's ticker map, or {} once each
\* of the three attempts has failed.  fetch_failures is the number of
\* attempts in a row that fail from now on.
fetch_tickers_safe(ex_obj) ==
    IF ex_obj.fetch_failures >= FETCH_ATTEMPTS THEN NoTickers ELSE ex_obj.tickers

\* b_tk.get(sym)
TickerOf(tk, sym) ==
    IF sym \in DOMAIN tk THEN tk[sym] ELSE NoTicker

\* bulk: what run_scan holds of each exchange after loading and fetching
\* (lines 257-277), the tickers field being the fetched map.
Snapshot(ex) ==
    [e \in DOMAIN ex |-> [ex[e] EXCEPT !.tickers = fetch_tickers_safe(ex[e])]]

\* The capability check written with "and": drops only when both are off.
ChainRejected_BothFlags(ch, exclude, include_all) ==
    \/ /\ ~include_all
       /\ \/ IsSentinel(ch[1])
          \/ normalize_chain(ch[1]) \in {normalize_chain(c) : c \in exclude}
    \/ (~ch[2] /\ ~ch[3])

\* The caller's check of the chosen chain (lines 328-330): TRUE when the
\* triple is dropped.
ChainRejected(ch, exclude, include_all) ==
    \/ /\ ~include_all
       /\ \/ IsSentinel(ch[1])
          \/ normalize_chain(ch[1]) \in {normalize_chain(c) : c \in exclude}
    \/ ~ch[2]
    \/ ~ch[3]

\* The body of the loop over the symbols of one exchange pair (lines
\* 304-352) at clock reading t.  st carries the tracker's trails, the
\* scan's key list and result list, the history of recorded samples, and
\* whether an exception has left the loops.  A taker fee of None makes the
\* profit's arithmetic raise TypeError.
ScoreTriple(st, ex, cfg, history, sym, b_id, s_id, t) ==
    LET b_ex == ex[b_id]
        s_ex == ex[s_id]
        bt == TickerOf(b_ex.tickers, sym)
        st_ == TickerOf(s_ex.tickers, sym)
        bp == market_price_from_ticker(bt)
        sp == market_price_from_ticker(st_)
        b_fee == TakerFee(b_ex, sym)
        s_fee == TakerFee(s_ex, sym)
        profit == Profit(bp, sp, b_fee, s_fee)
        b_vol == safe_usd_volume(sym, bt, bp, b_ex.tickers)
        s_vol == safe_usd_volume(sym, st_, sp, s_ex.tickers)
        ch == choose_common_chain(b_ex, s_ex, parse_symbol(sym)[1],
                                  cfg.exclude_chains, cfg.include_all_chains)
        key == <<sym, b_id, s_id>>
        se == stability_and_expiry(st.cache[key], history[key], t, profit)
    IN  IF st.raised THEN st
        ELSE IF ~bt.present \/ ~st_.present \/ ~is_ticker_fresh(bt) \/ ~is_ticker_fresh(st_)
        THEN st
        ELSE IF NoPrice(bp) \/ NoPrice(sp) THEN st
        ELSE IF Insane(bp, sp) THEN st
        ELSE IF b_fee = NONE \/ s_fee = NONE THEN [st EXCEPT !.raised = TRUE]
        ELSE IF ProfitRejected(profit, cfg.min_profit, cfg.max_profit) THEN st
        ELSE IF b_vol < cfg.min_24h_vol_usd \/ s_vol < cfg.min_24h_vol_usd THEN st
        ELSE IF ChainRejected(ch, cfg.exclude_chains, cfg.include_all_chains)
        THEN [st EXCEPT !.chosen[key] = ch]
        ELSE [st EXCEPT !.chosen[key] = ch,
                        !.cache[key] = se.trail,
                        !.keys = Append(@, key),
                        !.res = Append(@, Record(sym, b_id, s_id, Spread(bp, sp), profit, ch, se)),
                        !.recorded[key] = Append(@, <<t, profit>>)]

\* vol_score(sym) of one exchange pair
vol_score(ex, sym, b_id, s_id) ==
    LET bt == TickerOf(ex[b_id].tickers, sym)
        st_ == TickerOf(ex[s_id].tickers, sym)
        pb == IF NoPrice(market_price_from_ticker(bt)) THEN 0 ELSE market_price_from_ticker(bt)
        ps == IF NoPrice(market_price_from_ticker(st_)) THEN 0 ELSE market_price_from_ticker(st_)
    IN  safe_usd_volume(sym, bt, pb, ex[b_id].tickers)
        + safe_usd_volume(sym, st_, ps, ex[s_id].tickers)

\* vol_score of each symbol of the list cand
Scores(ex, cand, b_id, s_id) ==
    SubSeq([i \in 1..Len(cand) |-> vol_score(ex, cand[i], b_id, s_id)], 1, Len(cand))

\* The place each element takes in a stable sort by descending score.
SortPositions(vols) ==
    SubSeq([i \in 1..Len(vols) |->
               Cardinality({j \in 1..Len(vols) :
                               vols[j] > vols[i] \/ (vols[j] = vols[i] /\ j < i)}) + 1],
           1, Len(vols))

\* The list cand with its elements put at the places pos.
Arrange(cand, pos) ==
    SubSeq([p \in 1..Len(cand) |-> cand[CHOOSE i \in 1..Len(cand) : pos[i] = p]],
           1, Len(cand))

\* symbols.sort(key=vol_score, reverse=True): a stable sort
SortByScore(cand, vols) == Arrange(cand, SortPositions(vols))

\* The cut left out: every symbol is kept.
Truncated_KeepAll(symbols) == symbols

\* symbols[:1000]
Truncated(symbols) ==
    SubSeq(symbols, 1, IF Len(symbols) < MAX_SYMBOLS THEN Len(symbols) ELSE MAX_SYMBOLS)

\* The symbols of S sorted and cut (lines 300-301), cand being S in the
\* order in which the list comprehension met its elements.
TopSymbols(ex, cand, b_id, s_id) ==
    Truncated(SortByScore(cand, Scores(ex, cand, b_id, s_id)))

\* iter is the order in which a set of symbols happens to be iterated.
SortedSymbols(ex, S, iter, b_id, s_id) ==
    TopSymbols(ex, SelectSeq(iter, LAMBDA a : a \in S), b_id, s_id)

\* for sym in symbols: ..., the list syms[lo..hi] walked in order, by halves
RECURSIVE ScoreSymbols(_, _, _, _, _, _, _, _, _, _)
ScoreSymbols(st, ex, cfg, history, syms, lo, hi, b_id, s_id, t) ==
    IF st.raised \/ lo > hi THEN st
    ELSE IF lo = hi THEN ScoreTriple(st, ex, cfg, history, syms[lo], b_id, s_id, t)
    ELSE ScoreSymbols(ScoreSymbols(st, ex, cfg, history, syms, lo, (lo + hi) \div 2,
                                   b_id, s_id, t),
                      ex, cfg, history, syms, (lo + hi) \div 2 + 1, hi, b_id, s_id, t)

\* set(b_ex.markets) & set(s_ex.markets)
CommonSymbols(b_ex, s_ex) ==
    {sym \in DOMAIN b_ex.markets \cap DOMAIN s_ex.markets :
        b_ex.markets[sym].listed /\ s_ex.markets[sym].listed}

\* The list comprehension of line 292 raises: symbol_ok(b_ex, s) raises for
\* some common symbol (symbol_ok(s_ex, s) is only called after symbol_ok(b_ex,
\* s) has returned True, and then it cannot raise).
SymbolsRaise(b_ex, s_ex) ==
    \E sym \in CommonSymbols(b_ex, s_ex) : symbol_ok_raises(b_ex, sym)

\* The scoring of the sorted list of one pair.
ScoreSorted(st, ex, cfg, history, syms, b_id, s_id, t) ==
    ScoreSymbols(st, ex, cfg, history, syms, 1, Len(syms), b_id, s_id, t)

\* The body of the loops over buy and sell exchanges (lines 284-352).
ScorePair(st, ex, cfg, history, iter, b_id, s_id, t) ==
    IF st.raised THEN st
    ELSE IF b_id = s_id THEN st
    ELSE IF ~ex[b_id].loaded \/ ~ex[s_id].loaded THEN st
    ELSE IF SymbolsRaise(ex[b_id], ex[s_id]) THEN [st EXCEPT !.raised = TRUE]
    ELSE ScoreSorted(st, ex, cfg, history,
                     SortedSymbols(ex, {sym \in CommonSymbols(ex[b_id], ex[s_id]) :
                                           symbol_ok(ex[b_id], sym) /\ symbol_ok(ex[s_id], sym)},
                                   iter, b_id, s_id),
                     b_id, s_id, t)

\* for b_id in buy: for s_id in sell: ..., the pairs numbered in loop order
RECURSIVE ScorePairs(_, _, _, _, _, _, _)
ScorePairs(st, ex, cfg, history, iter, n, t) ==
    IF n > Len(cfg.buy_exchanges) * Len(cfg.sell_exchanges) THEN st
    ELSE LET b_id == cfg.buy_exchanges[((n - 1) \div Len(cfg.sell_exchanges)) + 1]
             s_id == cfg.sell_exchanges[((n - 1) % Len(cfg.sell_exchanges)) + 1]
         IN  ScorePairs(ScorePair(st, ex, cfg, history, iter, b_id, s_id, t),
                        ex, cfg, history, iter, n + 1, t)

Perms(S) ==
    {q \in [1..Cardinality(S) -> S] : \A i, j \in 1..Cardinality(S) : q[i] = q[j] => i = j}

Reverse(q) == SubSeq([i \in 1..Len(q) |-> q[Len(q) + 1 - i]], 1, Len(q))

\* The symbols of S in the listing's order.
Listed(S) ==
    SelectSeq(BulkListing \o <<"BTC/USDT", "SOL/USDT", "ETH/BTC", "BULL/USDT", MalformedSymbol>>,
              LAMBDA a : a \in S)

\* The orders in which a set of symbols may be iterated (a Python set of
\* strings: any order): all of them for a small set, the listing's order and
\* its reverse for a large one.
IterationOrders(S) ==
    IF Cardinality(S) <= PermuteUpTo THEN Perms(S) ELSE {Listed(S), Reverse(Listed(S))}

\* The symbols that pass symbol_ok somewhere: the ones whose order matters.
EligibleSomewhere ==
    {sym \in Symbols : \E e \in Exchanges : sym \in DOMAIN exch[e].markets
                                            /\ symbol_ok(exch[e], sym)}

\* The number of scans so far: a second passes between two scans.
Scans == now - IdleGap * idles

\* The check written with "and": only two empty lists count.
ConfigError_BothEmpty(buy, sell) == buy = <<>> /\ sell = <<>>

\* `not buy or not sell`
ConfigError(buy, sell) == buy = <<>> \/ sell = <<>>

\* set(buy + sell)
Requested(cfg) == SeqToSet(cfg.buy_exchanges) \cup SeqToSet(cfg.sell_exchanges)

\* The calls run_scan makes on the gateway: load_markets once per requested
\* exchange, fetch_tickers on each loaded one until an attempt succeeds, three
\* times at most.
GatewayCalls(ex, cfg) ==
    {<<"load_markets", e, 1>> : e \in Requested(cfg)}
    \cup {c \in {"fetch_tickers"} \X {x \in Requested(cfg) : ex[x].loaded}
                                 \X (1..FETCH_ATTEMPTS) :
             c[3] <= ex[c[2]].fetch_failures + 1}

\* The messages run_scan hands to the logger, as a set.
LogLines(ex, cfg, raised) ==
    {<<"start", "">>, <<"lists", "">>}
    \cup {<<IF ex[e].loaded THEN "loaded" ELSE "skipped", e>> : e \in Requested(cfg)}
    \cup {<<"fetched", e>> : e \in {x \in Requested(cfg) : ex[x].loaded}}
    \cup (IF raised THEN {} ELSE {<<"finished", "">>})

\* run_scan(settings, logger), one whole call, the (Scans + 1)-th of at most
\* maxScans.  A call that raises leaves the trails it has stored so far and
\* returns nothing; reconcile is not reached.
RunScan(maxScans) ==
    /\ Scans < maxScans
    /\ now' = now + 1
    /\ UNCHANGED <<exch, settings, moves, idles, aside>>
    /\ IF ConfigError(settings.buy_exchanges, settings.sell_exchanges)
       THEN /\ results' = <<>>
            /\ run' = [raised |-> FALSE,
                       log |-> {<<"start", "">>, <<"lists", "">>, <<"need_exchanges", "">>},
                       calls |-> {}]
            /\ UNCHANGED <<tracker, current_keys, chosen, recorded>>
       ELSE \E iter \in IterationOrders(EligibleSomewhere) :
            \E st \in {ScorePairs([cache |-> op_cache, keys |-> <<>>, res |-> <<>>,
                                   chosen |-> [k \in Keys |-> NotReached],
                                   recorded |-> recorded, raised |-> FALSE],
                                  Snapshot(exch), settings, lifetime_history,
                                  iter, 1, now + 1)} :
                /\ op_cache' = st.cache
                /\ chosen' = st.chosen
                /\ recorded' = st.recorded
                /\ run' = [raised |-> st.raised,
                           log |-> LogLines(exch, settings, st.raised),
                           calls |-> GatewayCalls(exch, settings)]
                /\ IF st.raised
                   THEN /\ results' = <<>>
                        /\ current_keys' = <<>>
                        /\ UNCHANGED <<lifetime_history, last_seen_keys>>
                   ELSE /\ lifetime_history' =
                               update_lifetime_for_disappeared(last_seen_keys, st.cache,
                                                               lifetime_history, st.keys)
                        /\ last_seen_keys' = SeqToSet(st.keys)
                        /\ current_keys' = st.keys
                        /\ results' = st.res

\* ------------------------------------------------------------ environment
MoveSymbols == {"BTC/USDT", "SOL/USDT"}
\* The two last prices a moving symbol takes on the sell exchange: level with
\* the buy exchange's, and 3 % above it.
LastPrices == [quiet |-> 1000, rich |-> 1030]
QuietPrice == LastPrices.quiet
RichPrice == LastPrices.rich

\* Between two scans the sell exchange's last price of one symbol moves.
PriceMove(maxMoves, before, syms) ==
    /\ moves < maxMoves
    /\ now < before
    /\ moves' = moves + 1
    /\ \E sym \in syms :
          exch' = [exch EXCEPT !["okx"].tickers[sym].last =
                       IF @ = QuietPrice THEN RichPrice ELSE QuietPrice]
    /\ UNCHANGED <<tracker, scan_out, aside, now, settings, idles>>

\* Nobody asks for a scan for IdleGap seconds.
Idle(maxIdles, before) ==
    /\ idles < maxIdles
    /\ now < before
    /\ idles' = idles + 1
    /\ now' = now + IdleGap
    /\ UNCHANGED <<tracker, scan_out, aside, exch, settings, moves>>

\* ------------------------------------------------------------ initial state
Market(listed, taker) ==
    [listed |-> listed, spot |-> TRUE, active |-> TRUE, taker |-> taker]

Ticker(last, quoteVolume) ==
    [present |-> TRUE, last |-> last, bid |-> NONE, ask |-> NONE, age |-> 5,
     quoteVolume |-> quoteVolume, baseVolume |-> 0, info |-> <<>>]

Nets(names) == [n \in names |-> NetInfo(TRUE, TRUE)]

BaseCurrencies ==
    [c \in Coins |->
        CASE c = "BTC" -> Nets({"BSC", "ETH"})
          [] c = "SOL" -> Nets({"SOL"})
          [] OTHER     -> NoNets]

BaseExchange(e) ==
    [loaded |-> TRUE,
     fetch_failures |-> 0,
     markets |-> [sym \in BaseSymbols |->
                    CASE sym = "BTC/USDT" -> Market(TRUE, ABSENT)
                      [] sym = "SOL/USDT" -> Market(TRUE, 1)
                      [] sym = "ETH/BTC"  -> Market(e = "binance", 1)
                      [] OTHER            -> Market(TRUE, 1)],
     tickers |-> [sym \in BaseSymbols |->
                    CASE sym = "BTC/USDT" ->
                            Ticker(IF e = "okx" THEN RichPrice ELSE QuietPrice, 200000)
                      [] sym = "SOL/USDT" -> Ticker(QuietPrice, 150000)
                      [] OTHER            -> NoTicker],
     has_currencies |-> TRUE,
     currencies |-> BaseCurrencies]

\* The request the dashboard sends by default, both exchanges on both sides.
DefaultSettings ==
    [buy_exchanges |-> <<"binance", "okx">>, sell_exchanges |-> <<"binance", "okx">>,
     min_profit |-> 10, max_profit |-> 200, min_24h_vol_usd |-> 100000,
     exclude_chains |-> {"ETH"}, include_all_chains |-> FALSE]

\* No run_scan call so far.
NoRun == [raised |-> FALSE, log |-> {}, calls |-> {}]

\* The server's request threads (app.run serves each request in a thread of
\* its own), none of them in run_scan.  heap holds the list objects stored in
\* op_cache or held by a thread's local `trail`; ref[key] is the object
\* op_cache[key] points to, 0 for a key op_cache does not hold.
ThreadIds == {1, 2}
IdleThread ==
    [pc |-> "idle", todo |-> <<>>, t |-> 0, trail |-> 0, current |-> <<>>,
     gone |-> {}, res |-> <<>>, started |-> 0]
NoThreads ==
    [heap |-> <<>>, ref |-> [k \in Keys |-> 0], th |-> [i \in ThreadIds |-> IdleThread]]

\* The state after the module is loaded, for the exchanges and symbols of
\* exch.
InitTracker ==
    /\ op_cache = [k \in Keys |-> <<>>]
    /\ lifetime_history = [k \in Keys |-> <<>>]
    /\ last_seen_keys = {}
    /\ now = 0
    /\ results = <<>>
    /\ current_keys = <<>>
    /\ chosen = [k \in Keys |-> NotReached]
    /\ recorded = [k \in Keys |-> <<>>]
    /\ moves = 0
    /\ idles = 0
    /\ run = NoRun
    /\ threads = NoThreads

\* No call of safe_usd_volume on its own.
NoCall ==
    [symbol |-> "BTC/USDT", ticker |-> NoTicker, price |-> NONE, conv_last |-> NONE,
     done |-> FALSE, out |-> 0]

Init ==
    /\ exch = [e \in BaseExchanges |-> BaseExchange(e)]
    /\ settings = DefaultSettings
    /\ InitTracker
    /\ volume_call = NoCall

Next == RunScan(MaxScans) \/ PriceMove(MaxMoves, MaxScans, MoveSymbols)

Spec == Init /\ [][Next]_vars

NextLong ==
    \/ RunScan(LongScans)
    \/ PriceMove(LongMoves, MoveBefore, {"BTC/USDT"})
    \/ Idle(MaxIdles, IdleBefore)

SpecLong == Init /\ [][NextLong]_vars

\* ------------------------------------------------- one scan of a wide market
\* SpecScan: ScanRuns scans of a market drawn from four families, each
\* varying what one stage of the pipeline reads for the triple
\* BTC/USDT, binance > okx.
RawNets == {"BSC", "BEP20", "MATIC", "Polygon", "SOL", "ETH", "APT", "KAVA"}
FewNets == {"BSC", "SOL", "ETH"}

SmallSubsets(S) == {T \in SUBSET S : Cardinality(T) <= MaxNets}

\* "networks" dicts whose every entry allows withdrawal and deposit
OpenNetMaps == {Nets(S) : S \in SmallSubsets(RawNets)}

\* "networks" dicts whose entries differ: open, closed, or malformed
MixedNetMaps ==
    UNION {[S -> {NetInfo(TRUE, TRUE), NetInfo(FALSE, FALSE), BadInfo}] :
              S \in SmallSubsets(FewNets)}

ExcludeSets == {{}, {"ETH"}, {"BSC"}, {"MATIC"}}

ScanExchange(e, nets, has_currencies, last, taker, quoteVolume) ==
    [BaseExchange(e) EXCEPT
        !.currencies["BTC"] = nets,
        !.has_currencies = has_currencies,
        !.tickers["BTC/USDT"] = Ticker(last, quoteVolume),
        !.markets["BTC/USDT"].taker = taker]

ScanMarket(nets1, nets2, hc1, hc2, sp, taker, quoteVolume) ==
    [e \in BaseExchanges |->
        IF e = "binance"
        THEN ScanExchange(e, nets1, hc1, QuietPrice, taker, quoteVolume)
        ELSE ScanExchange(e, nets2, hc2, sp, ABSENT, 200000)]

ScanSettings(min_p, max_p, exclude, include_all) ==
    [DefaultSettings EXCEPT !.min_profit = min_p, !.max_profit = max_p,
                            !.exclude_chains = exclude,
                            !.include_all_chains = include_all]

\* Aliases, priorities and exclusions.
InitAliases ==
    \E nets1 \in OpenNetMaps, nets2 \in OpenNetMaps,
       cfg \in {<<exclude, FALSE>> : exclude \in ExcludeSets} \cup {<<{"ETH"}, TRUE>>} :
        /\ exch = ScanMarket(nets1, nets2, TRUE, TRUE, RichPrice, ABSENT, 200000)
        /\ settings = ScanSettings(10, 200, cfg[1], cfg[2])

\* Capabilities and failures of the network data.
InitCapabilities ==
    \E nets1 \in MixedNetMaps, nets2 \in MixedNetMaps,
       hc \in {<<TRUE, TRUE>>, <<FALSE, TRUE>>, <<TRUE, FALSE>>},
       exclude \in {{}, {"ETH"}}, include_all \in BOOLEAN :
        /\ exch = ScanMarket(nets1, nets2, hc[1], hc[2], RichPrice, ABSENT, 200000)
        /\ settings = ScanSettings(10, 200, exclude, include_all)

SellPrices == {1005, 1011, 1012, 1013, 1014, 1031, 1032, 1033, 1600}
TakerFees == {ABSENT, 0, 2}
QuoteVolumes == {99999, 100000}

\* Prices, fees, volumes and the profit range.
InitPrices ==
    \E sp \in SellPrices, taker \in TakerFees, qv \in QuoteVolumes,
       min_p \in {10, 12}, max_p \in {30, 200}, include_all \in BOOLEAN :
        /\ exch = ScanMarket(Nets({"BSC", "ETH"}), Nets({"BSC", "ETH"}), TRUE, TRUE,
                             sp, taker, qv)
        /\ settings = ScanSettings(min_p, max_p, {"ETH"}, include_all)

TickerAges == {NONE, MAX_AGE_SEC - 1, MAX_AGE_SEC, MAX_AGE_SEC + 1}

\* A ticker of the given age, or no ticker at all.
AgedTicker(present, last, age) ==
    IF present THEN [Ticker(last, 200000) EXCEPT !.age = age] ELSE NoTicker

\* Missing tickers and ticker ages around the limit, on either side.
InitFreshness ==
    \E pb \in BOOLEAN, ps \in BOOLEAN, ab \in TickerAges, as \in TickerAges,
       sp \in {QuietPrice, RichPrice} :
        /\ exch = [ScanMarket(Nets({"BSC", "ETH"}), Nets({"BSC", "ETH"}), TRUE, TRUE,
                              sp, ABSENT, 200000)
                      EXCEPT !["binance"].tickers["BTC/USDT"] = AgedTicker(pb, QuietPrice, ab),
                             !["okx"].tickers["BTC/USDT"] = AgedTicker(ps, sp, as)]
        /\ settings = ScanSettings(10, 200, {"ETH"}, FALSE)

UnknownFees == {ABSENT, NONE, 0, 1}

\* Taker fees that are missing, None or known, on either side.
InitFees ==
    \E b_taker \in UnknownFees, s_taker \in UnknownFees, sp \in {1020, RichPrice},
       min_p \in {10, 18, 19} :
        /\ exch = [ScanMarket(Nets({"BSC", "ETH"}), Nets({"BSC", "ETH"}), TRUE, TRUE,
                              sp, b_taker, 200000)
                      EXCEPT !["okx"].markets["BTC/USDT"].taker = s_taker]
        /\ settings = ScanSettings(min_p, 200, {"ETH"}, FALSE)

\* The market entry of a symbol the base markets do not have.
ExtraMarket(listed, spot) ==
    [listed |-> listed, spot |-> spot, active |-> TRUE, taker |-> ABSENT]

\* Both exchanges' market maps carry a key without a separator.
InitMalformed ==
    \E b_listed \in BOOLEAN, s_listed \in BOOLEAN, b_spot \in BOOLEAN,
       sp \in {QuietPrice, RichPrice}, sides \in {1, 2} :
        /\ exch = [e \in BaseExchanges |->
                     [ScanMarket(Nets({"BSC", "ETH"}), Nets({"BSC", "ETH"}), TRUE, TRUE,
                                 sp, ABSENT, 200000)[e]
                        EXCEPT !.markets = [sym \in BaseSymbols \cup {MalformedSymbol} |->
                                             IF sym \in BaseSymbols THEN @[sym]
                                             ELSE ExtraMarket(IF e = "binance" THEN b_listed
                                                              ELSE s_listed,
                                                              e # "binance" \/ b_spot)],
                               !.tickers = [sym \in BaseSymbols \cup {MalformedSymbol} |->
                                             IF sym \in BaseSymbols THEN @[sym]
                                             ELSE Ticker(IF e = "binance" THEN QuietPrice
                                                         ELSE RichPrice, 200000)]]]
        /\ settings = [ScanSettings(10, 200, {"ETH"}, FALSE) EXCEPT
                          !.buy_exchanges = SubSeq(@, 1, sides)]

InitScan ==
    /\ (InitAliases \/ InitCapabilities \/ InitPrices \/ InitFreshness)
    /\ InitTracker
    /\ volume_call = NoCall

NextScan == RunScan(ScanRuns)

SpecScan == InitScan /\ [][NextScan]_vars

\* SpecOdd: ScanRuns scans of a market whose exchange metadata is not what
\* run_scan expects: a taker fee that is absent or None, a listed symbol
\* without a separator.
InitOdd ==
    /\ (InitFees \/ InitMalformed)
    /\ InitTracker
    /\ volume_call = NoCall

SpecOdd == InitOdd /\ [][NextScan]_vars

\* ------------------------------------------- markets around the symbol cap
\* SpecBulk: one buy and one sell exchange listing the same count symbols
\* C1/USDT .. C<count>/USDT, all eligible.  Symbol i has the 24h quote volume
\* 200000 + (BulkCount - i) on each side, so C1 has the highest score;
\* with tie, the symbol just beyond the cap has the volume of the last one
\* within it.  The symbols numbered in rich are 3 % dearer on the sell side.
BulkCoins(count) == {parse_symbol(BulkListing[i])[1] : i \in 1..count}

BulkTicker(i, last, tie) ==
    Ticker(last, 200000 + BulkCount
                   - (IF tie /\ i = MAX_SYMBOLS + 1 THEN MAX_SYMBOLS ELSE i))

\* symbol -> ticker, for the symbols lo..hi of the listing
RECURSIVE BulkTickers(_, _, _, _, _)
BulkTickers(lo, hi, rich, sell, tie) ==
    IF lo = hi
    THEN BulkListing[lo] :> BulkTicker(lo, IF sell /\ lo \in rich THEN RichPrice
                                                                  ELSE QuietPrice, tie)
    ELSE BulkTickers(lo, (lo + hi) \div 2, rich, sell, tie)
         @@ BulkTickers((lo + hi) \div 2 + 1, hi, rich, sell, tie)

BulkExchange(count, rich, sell, tie) ==
    [loaded |-> TRUE,
     fetch_failures |-> 0,
     markets |-> [sym \in {BulkListing[i] : i \in 1..count} |-> Market(TRUE, ABSENT)],
     tickers |-> BulkTickers(1, count, rich, sell, tie),
     has_currencies |-> TRUE,
     currencies |-> [c \in BulkCoins(count) |-> Nets({"BSC"})]]

BulkSettings ==
    [DefaultSettings EXCEPT !.buy_exchanges = <<"binance">>, !.sell_exchanges = <<"okx">>]

\* A market of at most BulkSmall symbols, any of them rich.
InitSmall ==
    \E count \in 1..BulkSmall : \E rich \in SUBSET (1..count) :
        /\ exch = [e \in BaseExchanges |-> BulkExchange(count, rich, e = "okx", FALSE)]
        /\ settings = BulkSettings

\* A market of the cap's size or up to BulkExtra symbols more; the first
\* symbol and the ones around the cap are rich.
InitLarge ==
    \E count \in MAX_SYMBOLS..BulkCount, tie \in BOOLEAN :
        /\ tie => count > MAX_SYMBOLS
        /\ exch = [e \in BaseExchanges |->
                     BulkExchange(count, {1} \cup ((MAX_SYMBOLS - 1)..count), e = "okx", tie)]
        /\ settings = BulkSettings

InitBulk ==
    /\ (InitSmall \/ InitLarge)
    /\ InitTracker
    /\ volume_call = NoCall

NextBulk == RunScan(ScanRuns)

SpecBulk == InitBulk /\ [][NextBulk]_vars

\* ------------------------------------------- outages and changing requests
\* SpecOps: three exchanges that go out of and back into service between
\* scans, and requests whose exchange lists change, the empty list included.
OpsExchanges == {"binance", "okx", "kucoin"}
OpsSymbols == {"BTC/USDT", "SOL/USDT"}

\* binance is the cheap side of BTC/USDT; SOL/USDT costs the same everywhere.
OpsExchange(e) ==
    [loaded |-> TRUE,
     fetch_failures |-> 0,
     markets |-> [sym \in OpsSymbols |-> Market(TRUE, ABSENT)],
     tickers |-> [sym \in OpsSymbols |->
                    IF sym = "BTC/USDT" /\ e # "binance"
                    THEN Ticker(RichPrice, 200000)
                    ELSE Ticker(QuietPrice, 200000)],
     has_currencies |-> TRUE,
     currencies |-> BaseCurrencies]

\* What the gateway does on an exchange from now on: load_markets raises or
\* not, and the number of fetch_tickers attempts in a row that raise.
Healths == {<<TRUE, 0>>, <<FALSE, 0>>, <<TRUE, FETCH_ATTEMPTS - 1>>, <<TRUE, FETCH_ATTEMPTS>>}

Outage(maxOutages) ==
    /\ moves < maxOutages
    /\ moves' = moves + 1
    /\ \E e \in Exchanges, h \in Healths :
          /\ <<exch[e].loaded, exch[e].fetch_failures>> # h
          /\ exch' = [exch EXCEPT ![e].loaded = h[1], ![e].fetch_failures = h[2]]
    /\ UNCHANGED <<tracker, scan_out, aside, now, settings, idles>>

BuyLists == {<<>>, <<"binance">>, <<"binance", "okx", "kucoin">>}
SellLists == {<<>>, <<"okx", "kucoin">>, <<"binance", "okx", "kucoin">>}

\* The next /api/scan request carries other exchange lists.
NewRequest ==
    /\ \E buy \in BuyLists, sell \in SellLists :
          /\ <<buy, sell>> # <<settings.buy_exchanges, settings.sell_exchanges>>
          /\ settings' = [settings EXCEPT !.buy_exchanges = buy, !.sell_exchanges = sell]
    /\ UNCHANGED <<tracker, scan_out, aside, now, exch, moves, idles>>

InitOps ==
    /\ exch = [e \in OpsExchanges |-> OpsExchange(e)]
    /\ settings = [DefaultSettings EXCEPT
                      !.buy_exchanges = <<"binance", "okx", "kucoin">>,
                      !.sell_exchanges = <<"binance", "okx", "kucoin">>]
    /\ InitTracker
    /\ volume_call = NoCall

NextOps == RunScan(OpsScans) \/ Outage(MaxOutages) \/ NewRequest

SpecOps == InitOps /\ [][NextOps]_vars

\* ------------------------------------------------------ overlapping requests
\* SpecConc: two /api/scan requests served by two threads that share op_cache,
\* lifetime_history and last_seen_keys.  run_scan takes no lock; a thread
\* switch can fall between any two accesses of the shared dictionaries, so
\* each access is a step of its own.

\* The records run_scan's filters let through, in loop order: the filters
\* read the thread's own exchange objects and tickers only.
Found(ex, cfg, iter) ==
    ScorePairs([cache |-> [k \in Keys |-> <<>>], keys |-> <<>>, res |-> <<>>,
                chosen |-> [k \in Keys |-> NotReached],
                recorded |-> [k \in Keys |-> <<>>], raised |-> FALSE],
               ex, cfg, [k \in Keys |-> <<>>], iter, 1, 0).res

\* op_cache as the dictionary of the list objects' contents
CacheOf(heap, ref) == [k \in Keys |-> IF ref[k] = 0 THEN <<>> ELSE heap[ref[k]]]

TodoKey(th) == <<th.todo[1].Pair, th.todo[1].Buy, th.todo[1].Sell>>

\* A thread enters run_scan: loads markets, fetches tickers (lines 257-277).
Begin(i) ==
    LET th == threads.th[i]
    IN  /\ th.pc = "idle"
        /\ SumSeq([j \in 1..Cardinality(ThreadIds) |-> threads.th[j].started]) < ConcRequests
        /\ \E iter \in IterationOrders(EligibleSomewhere) :
              threads' = [threads EXCEPT !.th[i] =
                            [th EXCEPT !.pc = "observe",
                                       !.todo = Found(Snapshot(exch), settings, iter),
                                       !.current = <<>>, !.res = <<>>,
                                       !.started = @ + 1]]
        /\ UNCHANGED <<tracker, scan_out, now, exch, settings, moves, idles, volume_call>>

\* Lines 333 and 124-125: current_keys.append(key); now = time.time();
\* trail = op_cache.get(key, []).
Get(i) ==
    LET th == threads.th[i]
    IN  /\ th.pc = "observe"
        /\ th.todo # <<>>
        /\ now' = now + 1
        /\ recorded' = [recorded EXCEPT ![TodoKey(th)] = Append(@, <<now + 1, th.todo[1].Profit>>)]
        /\ threads' = [threads EXCEPT !.th[i] =
                          [th EXCEPT !.pc = "put", !.t = now + 1,
                                     !.trail = threads.ref[TodoKey(th)],
                                     !.current = Append(@, TodoKey(th))]]
        /\ UNCHANGED <<tracker, results, current_keys, chosen, run, exch, settings,
                       moves, idles, volume_call>>

\* Lines 126-129: for an empty trail, op_cache[key] = [(now, profit)] and
\* return; else trail.append((now, profit)), on the list object itself.
Put(i) ==
    LET th == threads.th[i]
        key == TodoKey(th)
        sample == <<th.t, th.todo[1].Profit>>
    IN  /\ th.pc = "put"
        /\ IF th.trail = 0
           THEN threads' = [threads EXCEPT
                              !.heap = Append(@, <<sample>>),
                              !.ref[key] = Len(threads.heap) + 1,
                              !.th[i] = [th EXCEPT !.pc = "observe", !.todo = Tail(@),
                                            !.res = Append(@, [th.todo[1] EXCEPT
                                                        !.Stability = ObsNew,
                                                        !.Expiry = ExpUnknown])]]
           ELSE threads' = [threads EXCEPT
                              !.heap[th.trail] = Append(@, sample),
                              !.th[i].pc = "slice"]
        /\ op_cache' = CacheOf(threads'.heap, threads'.ref)
        /\ UNCHANGED <<lifetime_history, last_seen_keys, scan_out, now, exch, settings,
                       moves, idles, volume_call>>

\* Line 130: op_cache[key] = trail[-30:], a new list object.
Slice(i) ==
    LET th == threads.th[i]
    IN  /\ th.pc = "slice"
        /\ threads' = [threads EXCEPT
                          !.heap = Append(@, TrimTrail(threads.heap[th.trail])),
                          !.ref[TodoKey(th)] = Len(threads.heap) + 1,
                          !.th[i].pc = "label"]
        /\ op_cache' = CacheOf(threads'.heap, threads'.ref)
        /\ UNCHANGED <<lifetime_history, last_seen_keys, scan_out, now, exch, settings,
                       moves, idles, volume_call>>

\* Lines 131-140 and 336: the texts, from the local list and the key's
\* lifetime history, and results.append.
Label(i) ==
    LET th == threads.th[i]
        trail == threads.heap[th.trail]
        duration == trail[Len(trail)][1] - trail[1][1]
    IN  /\ th.pc = "label"
        /\ threads' = [threads EXCEPT !.th[i] =
                          [th EXCEPT !.pc = "observe", !.todo = Tail(@),
                                     !.res = Append(@, [th.todo[1] EXCEPT
                                        !.Stability = [kind |-> "observed",
                                                       label |-> secs_to_label(duration, 1)],
                                        !.Expiry = Expiry(lifetime_history[TodoKey(th)],
                                                          duration)])]]
        /\ UNCHANGED <<tracker, scan_out, now, exch, settings, moves, idles, volume_call>>

\* Line 114, after the pair loops: gone = last_seen_keys - set(current_keys).
Gone(i) ==
    LET th == threads.th[i]
    IN  /\ th.pc = "observe"
        /\ th.todo = <<>>
        /\ threads' = [threads EXCEPT !.th[i] =
                          [th EXCEPT !.pc = "record",
                                     !.gone = last_seen_keys \ SeqToSet(th.current)]]
        /\ UNCHANGED <<tracker, scan_out, now, exch, settings, moves, idles, volume_call>>

\* Lines 115-120: one round of the loop over gone.
RecordGone(i) ==
    LET th == threads.th[i]
    IN  /\ th.pc = "record"
        /\ \E key \in th.gone :
              /\ threads' = [threads EXCEPT !.th[i].gone = @ \ {key}]
              /\ lifetime_history' =
                    IF op_cache[key] # <<>> /\ TrailDuration(op_cache[key]) > 0
                    THEN [lifetime_history EXCEPT
                            ![key] = Append(@, TrailDuration(op_cache[key]))]
                    ELSE lifetime_history
        /\ UNCHANGED <<op_cache, last_seen_keys, scan_out, now, exch, settings,
                       moves, idles, volume_call>>

\* Line 121, and the return of run_scan to api_scan.
Seen(i) ==
    LET th == threads.th[i]
    IN  /\ th.pc = "record"
        /\ th.gone = {}
        /\ last_seen_keys' = SeqToSet(th.current)
        /\ current_keys' = th.current
        /\ results' = th.res
        /\ threads' = [threads EXCEPT !.th[i].pc = "idle"]
        /\ UNCHANGED <<op_cache, lifetime_history, chosen, recorded, run, now, exch,
                       settings, moves, idles, volume_call>>

\* A price moves while requests are served.
ConcMove ==
    /\ moves < ConcMoves
    /\ moves' = moves + 1
    /\ \E sym \in MoveSymbols :
          exch' = [exch EXCEPT !["okx"].tickers[sym].last =
                       IF @ = QuietPrice THEN RichPrice ELSE QuietPrice]
    /\ UNCHANGED <<tracker, scan_out, aside, now, settings, idles>>

NextConc ==
    \/ \E i \in ThreadIds :
          Begin(i) \/ Get(i) \/ Put(i) \/ Slice(i) \/ Label(i)
          \/ Gone(i) \/ RecordGone(i) \/ Seen(i)
    \/ ConcMove

SpecConc == Init /\ [][NextConc]_vars

\* ------------------------------------------------- safe_usd_volume on its own
\* SpecVolume: one call of safe_usd_volume on arguments drawn from the values
\* below.
VolumeValues == {0, 5, UNPARSABLE}
BaseVolumeValues == {0, 2, UNPARSABLE}
PriceValues == {NONE, 0, 100}
InfoValues == {<<>>, <<UNPARSABLE>>, <<0, 7>>, <<UNPARSABLE, 7>>}
ConvLasts == {NONE, 1000}

\* The exchange's ticker map handed over as all_tickers.
AllTickers(conv_last) ==
    [sym \in BaseSymbols |-> IF sym = "BTC/USDT" THEN Ticker(conv_last, 0) ELSE NoTicker]

InitVolume ==
    /\ exch = [e \in BaseExchanges |-> BaseExchange(e)]
    /\ settings = DefaultSettings
    /\ InitTracker
    /\ \E symbol \in {"BTC/USDT", "ETH/BTC"}, present \in BOOLEAN,
          qvol \in VolumeValues, bvol \in BaseVolumeValues, info \in InfoValues,
          price \in PriceValues, conv_last \in ConvLasts :
            volume_call =
                [symbol |-> symbol,
                 ticker |-> IF present
                            THEN [Ticker(price, qvol) EXCEPT !.baseVolume = bvol, !.info = info]
                            ELSE NoTicker,
                 price |-> price, conv_last |-> conv_last, done |-> FALSE, out |-> 0]

\* safe_usd_volume(ex_id, symbol, ticker, price, all_tickers) is called.
CallVolume ==
    /\ ~volume_call.done
    /\ volume_call' =
          [volume_call EXCEPT
              !.done = TRUE,
              !.out = safe_usd_volume(volume_call.symbol, volume_call.ticker,
                                      volume_call.price, AllTickers(volume_call.conv_last))]
    /\ UNCHANGED <<tracker, scan_out, now, exch, settings, moves, idles, threads>>

NextVolume == CallVolume

SpecVolume == InitVolume /\ [][NextVolume]_vars

\* ==================================================================== claims
KeyOf(r) == <<r.Pair, r.Buy, r.Sell>>
ResultKeys(res) == {KeyOf(res[i]) : i \in DOMAIN res}
RecordsOf(res, k) == {res[i] : i \in {j \in DOMAIN res : KeyOf(res[j]) = k}}

\* A step that is one completed run_scan call.
ScanCompleted ==
    /\ now' = now + 1
    /\ settings.buy_exchanges # <<>>
    /\ settings.sell_exchanges # <<>>
    /\ ~run'.raised

\* C1 (as claimed): a key that was observed before and was absent from the
\* last completed scan (it expired) re-enters fresh: the scan that observes
\* it again leaves it a one-sample trail and reports the "new" status.
C1_FreshReentry ==
    [][\A k \in Keys :
          (op_cache[k] # <<>> /\ k \notin last_seen_keys /\ k \in last_seen_keys')
          => /\ Len(op_cache'[k]) = 1
             /\ \A r \in RecordsOf(results', k) : r.Stability.kind = "new"]_vars

\* C2: a lifetime is appended only by a completed scan, only for a key of
\* the previous scan's key set that is absent from this scan's key set and
\* whose trail is non-empty with a positive last-minus-first duration; every
\* such disappearance appends exactly that one duration, and the scan leaves
\* last_seen_keys equal to its own key set.
C2_LifetimeOnlyOnDisappearance ==
    [][/\ \A k \in Keys :
            LET trail == op_cache[k]
                positive == trail # <<>> /\ trail[Len(trail)][1] - trail[1][1] > 0
                vanished == /\ ScanCompleted
                            /\ k \in last_seen_keys
                            /\ k \notin ResultKeys(results')
            IN  /\ lifetime_history'[k] # lifetime_history[k] => vanished /\ positive
                /\ (vanished /\ positive)
                   => lifetime_history'[k] =
                        Append(lifetime_history[k], trail[Len(trail)][1] - trail[1][1])
       /\ ScanCompleted => last_seen_keys' = ResultKeys(results')]_vars

\* C2's case: a scan has just recorded the lifetime of a key that vanished.
C2_Witness ==
    \E k \in Keys :
        /\ lifetime_history[k] # <<>>
        /\ k \notin last_seen_keys
        /\ lifetime_history[k][Len(lifetime_history[k])]
             = op_cache[k][Len(op_cache[k])][1] - op_cache[k][1][1]

\* C3: every stored trail holds at most 30 samples, and they are the most
\* recent min(n, 30) of the n samples recorded for the key, in the order
\* they were recorded.
C3_TrailIsLast30 ==
    \A k \in Keys :
        LET n == Len(recorded[k])
            m == IF n < 30 THEN n ELSE 30
        IN  /\ Len(op_cache[k]) <= 30
            /\ Len(op_cache[k]) = m
            /\ \A i \in 1..m : op_cache[k][i] = recorded[k][n - m + i]

\* C3's case: some key has been observed more than 30 times, the last time
\* in the scan just finished.
C3_Witness ==
    \E k \in Keys : Len(recorded[k]) > 30 /\ k \in ResultKeys(results)

K0 == <<"BTC/USDT", "binance", "okx">>
Nets1 == exch["binance"].currencies["BTC"]
Nets2 == exch["okx"].currencies["BTC"]

\* choose_common_chain was called for K0 in the last scan.
ChainApplied == chosen[K0] # NotReached

\* The network data of K0 is well formed.
WellFormed ==
    /\ exch["binance"].has_currencies
    /\ exch["okx"].has_currencies
    /\ \A a \in DOMAIN Nets1 : ~Nets1[a].malformed
    /\ \A b \in DOMAIN Nets2 : ~Nets2[b].malformed

\* Two names the alias table pairs, whatever their case.
AliasPair(a, b) ==
    \E k \in DOMAIN CHAIN_ALIASES :
        Upper(k) = Upper(a) /\ Upper(CHAIN_ALIASES[k]) = Upper(b)

\* Two names of one network: equal up to case, or paired by the alias table.
SameChain(a, b) == Upper(a) = Upper(b) \/ AliasPair(a, b)

\* The networks both exchanges list for K0, and those of them not excluded.
CommonNets == {p \in (DOMAIN Nets1) \X (DOMAIN Nets2) : SameChain(p[1], p[2])}
AllowedNets ==
    {p \in CommonNets :
        settings.include_all_chains
        \/ \A x \in settings.exclude_chains : ~SameChain(x, p[1])}

\* C5 (as claimed): when the buy exchange lists a network under one alias
\* and the sell exchange under the paired alias, the network counts as
\* common: selection does not end with a sentinel, and when it is the only
\* network of both exchanges it is the one selected.
C5_AliasesShareAChain ==
    (ChainApplied /\ WellFormed /\ settings.exclude_chains = {})
    => \A a \in DOMAIN Nets1, b \in DOMAIN Nets2 :
           AliasPair(a, b)
           => /\ ~IsSentinel(chosen[K0][1])
              /\ (DOMAIN Nets1 = {a} /\ DOMAIN Nets2 = {b})
                 => SameChain(chosen[K0][1], a)

\* C6 (as claimed): normalize_chain is idempotent on every network name it
\* was applied to, and the two members of an alias pair get one form.
C6_NormalizeIdempotent ==
    ChainApplied
    => \A n \in DOMAIN Nets1 \cup DOMAIN Nets2 :
           /\ normalize_chain(normalize_chain(n)) = normalize_chain(n)
           /\ \A m \in AllNames :
                  AliasPair(n, m) => normalize_chain(n) = normalize_chain(m)

\* C7 (as claimed): with a non-empty common/allowed set the selector returns
\* the first network of the priority order that is in the set, whichever
\* alias the exchanges use; with no priority network in the set it returns
\* the lexicographically smallest network of the set.
C7_FirstPriorityNetwork ==
    (ChainApplied /\ WellFormed /\ AllowedNets # {})
    => LET hits == {i \in DOMAIN LOW_FEE_CHAIN_PRIORITY :
                       \E p \in AllowedNets : SameChain(LOW_FEE_CHAIN_PRIORITY[i], p[1])}
           first == CHOOSE i \in hits : \A j \in hits : i <= j
       IN  IF hits # {}
           THEN SameChain(chosen[K0][1], LOW_FEE_CHAIN_PRIORITY[first])
           ELSE /\ \E p \in AllowedNets : SameChain(chosen[K0][1], p[1])
                /\ \A p \in AllowedNets :
                       LexRank(chosen[K0][1]) <= LexRank(normalize_chain(p[1]))

\* C8 (as claimed): without the override no emitted record names a network
\* of the exclusion set, under any alias; and when a common network outside
\* the exclusion set exists the selector picks one that is not excluded.
C8_NoExcludedNetwork ==
    ~settings.include_all_chains
    => /\ \A i \in DOMAIN results : \A x \in settings.exclude_chains :
              ~SameChain(x, results[i].Blockchain)
       /\ (ChainApplied /\ WellFormed /\ AllowedNets # {})
          => /\ ~IsSentinel(chosen[K0][1])
             /\ \A x \in settings.exclude_chains : ~SameChain(x, chosen[K0][1])

\* C9: every emitted record, with or without the override, names a network
\* (no sentinel) that both exchanges list for the base asset, open for
\* withdrawal on the buy exchange and for deposit on the sell exchange; a
\* sentinel always comes with both flags off, and missing currency data or
\* malformed network entries on the buy exchange give the unknown sentinel
\* and no record.
C9_ViableNetwork ==
    /\ \A i \in DOMAIN results :
          LET r == results[i]
              coin == parse_symbol(r.Pair)[1]
              b_ex == exch[r.Buy]
              s_ex == exch[r.Sell]
          IN  /\ ~IsSentinel(r.Blockchain)
              /\ r.Withdraw /\ r.Deposit
              /\ b_ex.has_currencies /\ s_ex.has_currencies
              /\ \E a \in DOMAIN b_ex.currencies[coin], b \in DOMAIN s_ex.currencies[coin] :
                    /\ SameChain(a, b)
                    /\ SameChain(r.Blockchain, a)
                    /\ ~b_ex.currencies[coin][a].malformed
                    /\ ~s_ex.currencies[coin][b].malformed
                    /\ b_ex.currencies[coin][a].withdraw
                    /\ s_ex.currencies[coin][b].deposit
    /\ \A k \in Keys : IsSentinel(chosen[k][1]) => ~chosen[k][2] /\ ~chosen[k][3]
    /\ (ChainApplied /\ ~(exch["binance"].has_currencies /\ exch["okx"].has_currencies))
       => chosen[K0] = <<UNKNOWN_CHAIN, FALSE, FALSE>> /\ K0 \notin ResultKeys(results)
    /\ ( /\ ChainApplied
         /\ exch["binance"].has_currencies /\ exch["okx"].has_currencies
         /\ AllowedNets # {}
         /\ \A a \in DOMAIN Nets1 : Nets1[a].malformed )
       => chosen[K0] = <<UNKNOWN_CHAIN, FALSE, FALSE>> /\ K0 \notin ResultKeys(results)

\* C9's case: under the override a record was emitted on a network of the
\* exclusion set while the buy exchange lists another network that is closed.
C9_Witness ==
    /\ settings.include_all_chains
    /\ \E i \in DOMAIN results :
          /\ \E x \in settings.exclude_chains : SameChain(x, results[i].Blockchain)
          /\ \E a \in DOMAIN Nets1 : ~Nets1[a].malformed /\ ~Nets1[a].withdraw

\* ------------------------------------------- claims about the profit filter
\* C10: a triple that passes every other filter is emitted exactly when
\* min_profit <= profit% <= max_profit (so it is the profit filter that
\* rejects it exactly when profit% < min_profit or profit% > max_profit), and
\* every emitted record lies in the range, bounds included.
C10_ProfitRange ==
    LET b_ex == exch[K0[2]]
        s_ex == exch[K0[3]]
        bt == b_ex.tickers[K0[1]]
        st_ == s_ex.tickers[K0[1]]
        bp == market_price_from_ticker(bt)
        sp == market_price_from_ticker(st_)
        profit == ((sp - bp) * 1000) \div bp - (TakerFee(b_ex, K0[1]) + TakerFee(s_ex, K0[1]))
        others == /\ bt.present /\ st_.present
                  /\ is_ticker_fresh(bt) /\ is_ticker_fresh(st_)
                  /\ ~NoPrice(bp) /\ ~NoPrice(sp)
                  /\ ~Insane(bp, sp)
                  /\ safe_usd_volume(K0[1], bt, bp, b_ex.tickers) >= settings.min_24h_vol_usd
                  /\ safe_usd_volume(K0[1], st_, sp, s_ex.tickers) >= settings.min_24h_vol_usd
                  /\ ~ChainRejected(choose_common_chain(b_ex, s_ex, "BTC",
                                        settings.exclude_chains, settings.include_all_chains),
                                    settings.exclude_chains, settings.include_all_chains)
    IN  /\ (now > 0 /\ others)
           => (K0 \in ResultKeys(results)
               <=> (profit >= settings.min_profit /\ profit <= settings.max_profit))
        /\ \A i \in DOMAIN results :
              /\ results[i].Profit >= settings.min_profit
              /\ results[i].Profit <= settings.max_profit

\* C10's case: a record whose profit is exactly min_profit was emitted.
C10_Witness ==
    \E i \in DOMAIN results : results[i].Profit = settings.min_profit

\* ------------------------------------------- claims about ticker freshness
\* C11: every emitted record has a ticker on both sides, each without a
\* timestamp or at most 300 seconds old; and a triple that passes the price,
\* profit, volume and network filters is emitted when each of its tickers is
\* present and has no timestamp or an age of at most 300 seconds (so no
\* timestamp counts as fresh and exactly 300 seconds is not stale).
C11_NoStaleTicker ==
    LET bt0 == exch[K0[2]].tickers[K0[1]]
        st0 == exch[K0[3]].tickers[K0[1]]
        bp == market_price_from_ticker(bt0)
        sp == market_price_from_ticker(st0)
        young(t) == t.present /\ (t.age = NONE \/ t.age <= 300)
        others == /\ ~NoPrice(bp) /\ ~NoPrice(sp)
                  /\ ~Insane(bp, sp)
                  /\ ~ProfitRejected(Profit(bp, sp, TakerFee(exch[K0[2]], K0[1]),
                                            TakerFee(exch[K0[3]], K0[1])),
                                     settings.min_profit, settings.max_profit)
                  /\ safe_usd_volume(K0[1], bt0, bp, exch[K0[2]].tickers) >= settings.min_24h_vol_usd
                  /\ safe_usd_volume(K0[1], st0, sp, exch[K0[3]].tickers) >= settings.min_24h_vol_usd
                  /\ ~ChainRejected(choose_common_chain(exch[K0[2]], exch[K0[3]], "BTC",
                                        settings.exclude_chains, settings.include_all_chains),
                                    settings.exclude_chains, settings.include_all_chains)
    IN  /\ \A i \in DOMAIN results :
              /\ young(exch[results[i].Buy].tickers[results[i].Pair])
              /\ young(exch[results[i].Sell].tickers[results[i].Pair])
        /\ (now > 0 /\ young(bt0) /\ young(st0) /\ others) => K0 \in ResultKeys(results)

\* C11's case: a record was emitted whose buy ticker is exactly 300 seconds
\* old and whose sell ticker has no timestamp.
C11_Witness ==
    /\ K0 \in ResultKeys(results)
    /\ exch[K0[2]].tickers[K0[1]].age = 300
    /\ exch[K0[3]].tickers[K0[1]].age = NONE

\* ------------------------------------------------ claims about the volume
\* C12 (as claimed): safe_usd_volume returns the value of the first step of
\* its priority order that yields one, a value that does not parse counting
\* as no value: the quote volume of a USD-quoted symbol, else base volume
\* times price, else the raw-payload volume (converted for a non-USD quote),
\* else the converted quote volume, and 0 only when no step yields a value.
C12_VolumeFallsThrough ==
    LET c == volume_call
        t == c.ticker
        quote == parse_symbol(c.symbol)[2]
        usd == quote \in {"USDT", "USD", "USDC", "BUSD"}
        has(v) == v # 0 /\ v # UNPARSABLE
        priced == c.price # NONE /\ c.price # 0
        conv == quote = "BTC" /\ c.conv_last # NONE /\ c.conv_last # 0
        raws == {i \in DOMAIN t.info : t.info[i] # UNPARSABLE /\ t.info[i] > 0}
        raw == t.info[CHOOSE i \in raws : \A j \in raws : i <= j]
        expected ==
            IF ~t.present THEN 0
            ELSE IF usd /\ has(t.quoteVolume) THEN t.quoteVolume
            ELSE IF has(t.baseVolume) /\ priced THEN t.baseVolume * c.price
            ELSE IF raws # {} /\ usd THEN raw
            ELSE IF raws # {} /\ conv THEN raw * c.conv_last
            ELSE IF has(t.quoteVolume) /\ conv THEN t.quoteVolume * c.conv_last
            ELSE 0
    IN  c.done => c.out = expected

\* ------------------------------------------ claims about the observed duration
\* C18 (as claimed): the duration reported for an already-tracked key is the
\* newest sample's time minus the oldest sample's time of the trail as stored
\* after the cap, which is the duration reconcile would record for the key.
C18_DurationOfRetainedTrail ==
    \A i \in DOMAIN results :
        LET r == results[i]
            trail == op_cache[KeyOf(r)]
        IN  r.Stability.kind = "observed"
            => r.Stability.label = secs_to_label(trail[Len(trail)][1] - trail[1][1], 1)

\* -------------------------------------------------- claims about malformed data
\* A triple passes every filter of run_scan on the gateway's data as it is.
Viable(sym, b_id, s_id) ==
    LET b_ex == exch[b_id]
        s_ex == exch[s_id]
        bt == b_ex.tickers[sym]
        st_ == s_ex.tickers[sym]
        bp == market_price_from_ticker(bt)
        sp == market_price_from_ticker(st_)
        fee(ex_obj) == IF ex_obj.markets[sym].taker \in {ABSENT, NONE} THEN 1
                       ELSE ex_obj.markets[sym].taker
        profit == ((sp - bp) * 1000) \div bp - (fee(b_ex) + fee(s_ex))
    IN  /\ b_id # s_id
        /\ symbol_ok(b_ex, sym) /\ symbol_ok(s_ex, sym)
        /\ bt.present /\ st_.present
        /\ is_ticker_fresh(bt) /\ is_ticker_fresh(st_)
        /\ ~NoPrice(bp) /\ ~NoPrice(sp)
        /\ ~Insane(bp, sp)
        /\ profit >= settings.min_profit /\ profit <= settings.max_profit
        /\ safe_usd_volume(sym, bt, bp, b_ex.tickers) >= settings.min_24h_vol_usd
        /\ safe_usd_volume(sym, st_, sp, s_ex.tickers) >= settings.min_24h_vol_usd
        /\ ~ChainRejected(choose_common_chain(b_ex, s_ex, parse_symbol(sym)[1],
                              settings.exclude_chains, settings.include_all_chains),
                          settings.exclude_chains, settings.include_all_chains)

\* The triples of the request.
Requests ==
    {k \in Keys : \E i \in DOMAIN settings.buy_exchanges, j \in DOMAIN settings.sell_exchanges :
                     k[2] = settings.buy_exchanges[i] /\ k[3] = settings.sell_exchanges[j]}

\* C15 (as claimed): a symbol without "/" listed by both exchanges does not
\* make the scan raise; no record is emitted for it, and every triple of
\* another symbol that passes the filters is still returned.
C15_MalformedSymbolSkipped ==
    (now > 0 /\ \E sym \in Symbols :
                    /\ Find(sym, "/") = 0
                    /\ \A e \in Exchanges : exch[e].markets[sym].listed)
    => /\ ~run.raised
       /\ \A i \in DOMAIN results : Find(results[i].Pair, "/") # 0
       /\ \A k \in Requests :
              (Find(k[1], "/") # 0 /\ Viable(k[1], k[2], k[3])) => k \in ResultKeys(results)

\* C16 (as claimed): the scan does not raise on an unknown taker fee; every
\* record carries spread% = (sell - buy) / buy x 100 and profit% = spread% -
\* (buy fee% + sell fee%), a fee that is absent or None counting as 0.1 %;
\* and a triple passing the other filters is emitted exactly when that
\* profit lies within the range.
C16_ProfitWithDefaultFee ==
    LET fee(e, sym) == IF exch[e].markets[sym].taker \in {ABSENT, NONE} THEN 1
                       ELSE exch[e].markets[sym].taker
        bp(k) == market_price_from_ticker(exch[k[2]].tickers[k[1]])
        sp(k) == market_price_from_ticker(exch[k[3]].tickers[k[1]])
        spread(k) == ((sp(k) - bp(k)) * 1000) \div bp(k)
        profit(k) == spread(k) - (fee(k[2], k[1]) + fee(k[3], k[1]))
    IN  /\ \A i \in DOMAIN results :
              /\ results[i].Spread = spread(KeyOf(results[i]))
              /\ results[i].Profit = profit(KeyOf(results[i]))
        /\ (now > 0 /\ \A sym \in Symbols : Find(sym, "/") # 0)
           => /\ ~run.raised
              /\ \A k \in Requests : Viable(k[1], k[2], k[3]) => k \in ResultKeys(results)

\* ------------------------------------------------ claims about failing scans
\* C14: a scan of non-empty exchange lists completes whatever exchanges fail
\* to load or to deliver tickers: it does not raise, it ends with reconcile
\* (the key set becomes the scan's own, and every key of the previous set
\* that is gone with a positive duration gets its lifetime recorded), no
\* record names an exchange that failed, and every viable triple of two
\* exchanges that did not fail is emitted.
C14_FailureDoesNotAbort ==
    [][(/\ now' = now + 1
        /\ settings.buy_exchanges # <<>>
        /\ settings.sell_exchanges # <<>>)
       => LET healthy(e) == exch[e].loaded /\ exch[e].fetch_failures < 3
          IN  /\ ~run'.raised
              /\ <<"finished", "">> \in run'.log
              /\ last_seen_keys' = ResultKeys(results')
              /\ \A k \in last_seen_keys \ ResultKeys(results') :
                     LET trail == op_cache'[k]
                         d == trail[Len(trail)][1] - trail[1][1]
                     IN  d > 0 => lifetime_history'[k] = Append(lifetime_history[k], d)
              /\ \A i \in DOMAIN results' :
                     healthy(results'[i].Buy) /\ healthy(results'[i].Sell)
              /\ \A k \in Requests :
                     (healthy(k[2]) /\ healthy(k[3]) /\ Viable(k[1], k[2], k[3]))
                     => k \in ResultKeys(results')]_vars

\* C14's case: in the last scan all three attempts to fetch an exchange's
\* tickers failed; the scan still returned an opportunity of the other
\* exchanges and recorded the lifetime of a key of the failed exchange.
C14_Witness ==
    /\ results # <<>>
    /\ <<"finished", "">> \in run.log
    /\ \E e \in Exchanges :
          /\ <<"fetch_tickers", e, 3>> \in run.calls
          /\ exch[e].fetch_failures = 3
          /\ \E k \in Keys : k[3] = e /\ lifetime_history[k] # <<>>

\* C17: a scan whose buy list or sell list is empty returns an empty result
\* list, logs the "need at least one buy & sell exchange" message, does not
\* raise, makes no gateway call, and leaves trails, lifetime history and the
\* last-seen key set as they were.
C17_EmptyListFailsFast ==
    [][(/\ now' = now + 1
        /\ (settings.buy_exchanges = <<>> \/ settings.sell_exchanges = <<>>))
       => /\ results' = <<>>
          /\ ~run'.raised
          /\ <<"need_exchanges", "">> \in run'.log
          /\ <<"finished", "">> \notin run'.log
          /\ run'.calls = {}
          /\ op_cache' = op_cache
          /\ lifetime_history' = lifetime_history
          /\ last_seen_keys' = last_seen_keys]_vars

\* C17's case: the last scan was refused for an empty list while a key of
\* the scan before it, tracked for a positive duration, stays in the
\* last-seen set without a lifetime recorded.
C17_Witness ==
    /\ <<"need_exchanges", "">> \in run.log
    /\ \E k \in last_seen_keys :
          /\ Len(op_cache[k]) >= 2
          /\ lifetime_history[k] = <<>>

\* ------------------------------------------- claims about overlapping requests
\* The threads inside stability_and_expiry for a key: between reading the
\* key's trail and storing it back.
Inside(k) ==
    {i \in ThreadIds : /\ threads.th[i].pc \in {"put", "slice"}
                       /\ TodoKey(threads.th[i]) = k}

\* C19 (as claimed): observations of one key are serialized and none is
\* lost: at no time are two threads between the read and the store of the
\* same key's trail, and whenever no thread is, the key's stored trail holds
\* exactly the samples handed to stability_and_expiry for it (fewer than 30
\* here).
C19_ObservationsSerialized ==
    \A k \in Keys :
        /\ Cardinality(Inside(k)) <= 1
        /\ Inside(k) = {} => SeqToSet(op_cache[k]) = SeqToSet(recorded[k])

\* ------------------------------------------------ claims about the symbol cap
\* The exchange pairs of the request, the symbols run_scan ranks for a pair
\* with their scores, and the keys of the pair's records.
RequestPairs == {<<k[2], k[3]>> : k \in {r \in Requests : r[2] # r[3]}}
ScoreTable(b_id, s_id) ==
    [sym \in {o \in CommonSymbols(exch[b_id], exch[s_id]) :
                 symbol_ok(exch[b_id], o) /\ symbol_ok(exch[s_id], o)}
        |-> vol_score(Snapshot(exch), sym, b_id, s_id)] @@ <<>>
Above(tab, sym) == {o \in DOMAIN tab : tab[o] > tab[sym]}
NotBelow(tab, sym) == {o \in DOMAIN tab \ {sym} : tab[o] >= tab[sym]}
PairKeys(b_id, s_id) == {k \in ResultKeys(results) : k[2] = b_id /\ k[3] = s_id}

\* C13: after a scan, for each requested pair of exchanges: every record is
\* of a symbol with fewer than 1000 eligible symbols of a higher combined
\* volume (no symbol ranked below the top 1000 is emitted, whatever its
\* profit); at most 1000 records are of the pair; and every eligible symbol
\* that passes the other filters and has fewer than 1000 other eligible
\* symbols of the same or a higher combined volume is emitted, so with 1000
\* or fewer eligible symbols all of them are evaluated.
C13_OnlyTopSymbolsEvaluated ==
    (now > 0 /\ ~run.raised) =>
    \A p \in RequestPairs : \A tab \in {ScoreTable(p[1], p[2])} :
        /\ \A k \in PairKeys(p[1], p[2]) :
              k[1] \in DOMAIN tab /\ Cardinality(Above(tab, k[1])) < 1000
        /\ Cardinality(PairKeys(p[1], p[2])) <= 1000
        /\ \A sym \in DOMAIN tab :
              (Viable(sym, p[1], p[2]) /\ Cardinality(NotBelow(tab, sym)) < 1000)
              => <<sym, p[1], p[2]>> \in PairKeys(p[1], p[2])

\* C13's case: a scan of a pair with more than 1000 eligible symbols has
\* returned the symbol ranked 1000th and left out a symbol ranked after it
\* that passes every other filter.
C13_Witness ==
    /\ now > 0
    /\ \E p \in RequestPairs : \E tab \in {ScoreTable(p[1], p[2])} :
          /\ Cardinality(DOMAIN tab) > 1000
          /\ \E k \in PairKeys(p[1], p[2]) : Cardinality(Above(tab, k[1])) = 999
          /\ \E sym \in DOMAIN tab :
                /\ Viable(sym, p[1], p[2])
                /\ Cardinality(Above(tab, sym)) >= 1000
                /\ <<sym, p[1], p[2]>> \notin PairKeys(p[1], p[2])

====
